---- MODULE Spec2Model ----
(***************************************************************************)
(* Model of tools/_validation.py: the argument validators of the library.  *)
(* Every validator is a pure check that returns normally or raises; the    *)
(* model records, for one call at a time, the arguments as passed, the     *)
(* argument as the call leaves it (an iterator's position), the elements   *)
(* the call's loop read, and how the call ended.                           *)
(***************************************************************************)
EXTENDS Integers, Sequences, FiniteSets

VARIABLES pc, op, X0, X, check_str, split, obj, sort, outcome, raisedAt,
          inspected

vars ==
    <<pc, op, X0, X, check_str, split, obj, sort, outcome, raisedAt, inspected>>

(* ---------------------------- bounds ---------------------------------- *)

\* longest element list of an iterable argument
MaxLen == 3
\* largest axis size of an array-like
MaxDim == 2
\* longest `sort` string
MaxSortLen == 4

(* ------------------------- argument values ---------------------------- *)

\* all sequences over S of length 0..n
SeqsUpTo(S, n) == UNION {[1..k -> S] : k \in 0..n}

\* runtime types of the elements an iterable yields
ElemTypes == {"str", "int"}

\* A Python object passed as X / docs / tokens / data.  `elems` is what
\* iterating it yields, `pos` how many of them a one-shot iterator has
\* already yielded, `shape` its per-axis sizes (ndim = number of axes).
Plain(kind, elems, pos) ==
    [kind |-> kind, elems |-> elems, pos |-> pos,
     hasNdim |-> FALSE, hasShape |-> FALSE, ndim |-> 0, shape |-> <<>>]

\* a str: iterating it yields its characters, each a str
Strings == {Plain("str", [i \in 1..n |-> "str"], 0) : n \in 0..MaxLen}

Lists == {Plain("list", e, 0) : e \in SeqsUpTo(ElemTypes, MaxLen)}

Sets == {Plain("set", e, 0) : e \in SeqsUpTo(ElemTypes, MaxLen)}

\* a generator, possibly already advanced by its owner
Generators ==
    UNION {{Plain("generator", e, p) : p \in 0..Len(e)} :
              e \in SeqsUpTo(ElemTypes, MaxLen)}

\* shapes of 0 to 3 axes
Shapes == UNION {[1..k -> 0..MaxDim] : k \in 0..3}

\* what iterating an array-like of shape s yields: its scalars when it is
\* 1-d (t says whether they are str), its sub-arrays otherwise
ArrayElems(s, t) ==
    IF Len(s) = 0 THEN <<>>
    ELSE [i \in 1..s[1] |-> IF Len(s) = 1 THEN t[i] ELSE "row"]

ArrayLikes(kind) ==
    UNION {{[kind |-> kind, elems |-> ArrayElems(s, t), pos |-> 0,
             hasNdim |-> TRUE, hasShape |-> TRUE, ndim |-> Len(s),
             shape |-> s] :
               t \in IF Len(s) = 1 THEN [1..s[1] -> ElemTypes] ELSE {<<>>}} :
           s \in Shapes \ {<<>>}}

\* numpy arrays / pandas frames, and other iterables with shape and ndim.
\* The iterables have at least one axis; a 0-d value is among the objects
\* that cannot be iterated (Opaque).
NdArrays == ArrayLikes("ndarray")
DuckArrays == ArrayLikes("duck")

\* objects that are not iterable: an int, a 0-d scalar with shape () and
\* ndim 0, and objects exposing any subset of {shape, ndim}
Opaque ==
    {[kind |-> "obj", elems |-> <<>>, pos |-> 0, hasNdim |-> hn,
      hasShape |-> hs, ndim |-> IF hn THEN Len(s) ELSE 0,
      shape |-> IF hs THEN s ELSE <<>>] :
        hn \in BOOLEAN, hs \in BOOLEAN, s \in Shapes}

Objects ==
    Strings \cup Lists \cup Sets \cup Generators \cup NdArrays
        \cup DuckArrays \cup Opaque

NoObject == Plain("obj", <<>>, 0)

(* ----------------------- isinstance / hasattr ------------------------- *)

IsStr(v) == v.kind = "str"
IsIterable(v) == v.kind \in {"str", "list", "set", "generator", "ndarray", "duck"}
IsCollection(v) == v.kind \in {"str", "list", "set", "ndarray", "duck"}
IsSequence(v) == v.kind \in {"str", "list"}
IsArrayOrFrame(v) == v.kind = "ndarray"
IsOneShot(v) == v.kind = "generator"

(* ------------------------------ results -------------------------------- *)

\* How a call ends: `outcome` is "ok" or the exception raised, `line` the
\* source line of the raise (0 for a normal return), `inspected` the
\* indices of the elements the call read, in the order read, and `arg` the
\* argument as the call leaves it.
Ok(v) == [outcome |-> "ok", line |-> 0, inspected |-> <<>>, arg |-> v]

Raise(exc, line, v) ==
    [outcome |-> exc, line |-> line, inspected |-> <<>>, arg |-> v]

\* index of the first element after `i` that is not a str, Len(e) + 1 if none
RECURSIVE FirstNonStr(_, _)
FirstNonStr(e, i) ==
    IF i > Len(e) THEN Len(e) + 1
    ELSE IF e[i] # "str" THEN i
    ELSE FirstNonStr(e, i + 1)

\* the loop without its early exit: every element is read and the error is
\* raised once the iteration is over
ForEachStr_no_early_exit(v, line) ==
    LET start == IF IsOneShot(v) THEN v.pos ELSE 0
        bad == FirstNonStr(v.elems, start + 1)
    IN [outcome |-> IF bad <= Len(v.elems) THEN "TypeError" ELSE "ok",
        line |-> IF bad <= Len(v.elems) THEN line ELSE 0,
        inspected |-> [i \in 1..(Len(v.elems) - start) |-> start + i],
        arg |-> IF IsOneShot(v) THEN [v EXCEPT !.pos = Len(v.elems)] ELSE v]

\* `for doc in v: if not isinstance(doc, str): raise TypeError(...)`.
\* A collection is iterated from its first element and is left as it was;
\* a one-shot iterator resumes after `pos` and keeps every element it has
\* yielded consumed, the offending one included.
ForEachStr(v, line) ==
    LET start == IF IsOneShot(v) THEN v.pos ELSE 0
        bad == FirstNonStr(v.elems, start + 1)
        last == IF bad <= Len(v.elems) THEN bad ELSE Len(v.elems)
    IN [outcome |-> IF bad <= Len(v.elems) THEN "TypeError" ELSE "ok",
        line |-> IF bad <= Len(v.elems) THEN line ELSE 0,
        inspected |-> [i \in 1..(last - start) |-> start + i],
        arg |-> IF IsOneShot(v) THEN [v EXCEPT !.pos = last] ELSE v]

(* ----------------------------- validators ------------------------------ *)

\* the characters `sort` strings are drawn from
Chars == {"a", "c", "d", "e", "s", "A", "C", "D", "E", "S"}

\* str.lower(), character by character
LowerChar(c) ==
    CASE c = "A" -> "a"
      [] c = "C" -> "c"
      [] c = "D" -> "d"
      [] c = "E" -> "e"
      [] c = "S" -> "s"
      [] OTHER -> c

lower(s) == [i \in 1..Len(s) |-> LowerChar(s[i])]

\* the literal set {"asc", "desc"}
SortValues == {<<"a", "s", "c">>, <<"d", "e", "s", "c">>}

\* `sort` is None or a str
None == [isNone |-> TRUE, chars |-> <<>>]
Str(cs) == [isNone |-> FALSE, chars |-> cs]
SortArgs == {None} \cup {Str(cs) : cs \in SeqsUpTo(Chars, MaxSortLen)}

\* the comparison without .lower()
_validate_sort_case_sensitive(s) ==
    IF s.isNone THEN "ok"
    ELSE IF s.chars \notin SortValues THEN "ValueError"
    ELSE "ok"

_validate_sort(s) ==
    IF s.isNone THEN "ok"
    ELSE IF lower(s.chars) \notin SortValues THEN "ValueError"
    ELSE "ok"

\* shapes of the arrays of a train/test split: one or two axes
SplitShapes == UNION {[1..k -> 1..MaxDim] : k \in 1..2}

\* The asserts run in order; shape[1] of an array with one axis raises
\* IndexError (tuple index out of range).
_validate_train_test_split(X_train, X_test, y_train, y_test) ==
    IF X_train[1] # y_train[1] THEN [outcome |-> "AssertionError", line |-> 27]
    ELSE IF X_test[1] # y_test[1] THEN [outcome |-> "AssertionError", line |-> 28]
    ELSE IF Len(X_train) > 1 /\ Len(X_test) < 2
        THEN [outcome |-> "IndexError", line |-> 30]
    ELSE IF Len(X_train) > 1 /\ X_train[2] # X_test[2]
        THEN [outcome |-> "AssertionError", line |-> 30]
    ELSE IF Len(y_train) > 1 /\ Len(y_test) < 2
        THEN [outcome |-> "IndexError", line |-> 32]
    ELSE IF Len(y_train) > 1 /\ y_train[2] # y_test[2]
        THEN [outcome |-> "AssertionError", line |-> 32]
    ELSE [outcome |-> "ok", line |-> 0]

_check_1dlike(data) ==
    IF ~(data.hasShape /\ data.hasNdim) THEN Raise("TypeError", 38, data)
    ELSE IF data.ndim = 2 /\ data.shape[2] > 1 THEN Raise("ValueError", 43, data)
    ELSE IF data.ndim > 2 THEN Raise("ValueError", 45, data)
    ELSE Ok(data)

_check_1d(data) ==
    IF ~data.hasNdim THEN Raise("TypeError", 50, data)
    ELSE IF data.ndim > 1 THEN Raise("ValueError", 54, data)
    ELSE Ok(data)

\* obj is [trans, pipe]: isinstance(obj, TransformerMixin / Pipeline)
\* the check its docstring describes: a transformer or a pipeline passes
_validate_transformer_or_pipeline(o) ==
    IF ~o.trans /\ ~o.pipe THEN "TypeError" ELSE "ok"

_validate_transformer(o) ==
    IF ~o.trans \/ o.pipe THEN "TypeError" ELSE "ok"

\* the element loop run before the ndim check
_validate_raw_docs_elements_first(v) ==
    IF ~IsIterable(v) \/ IsStr(v) THEN Raise("TypeError", 69, v)
    ELSE IF ForEachStr(v, 78).outcome # "ok" THEN ForEachStr(v, 78)
    ELSE IF v.hasNdim /\ v.ndim > 1 THEN Raise("ValueError", 73, v)
    ELSE ForEachStr(v, 78)

_validate_raw_docs(v) ==
    IF ~IsIterable(v) \/ IsStr(v) THEN Raise("TypeError", 69, v)
    ELSE IF v.hasNdim /\ v.ndim > 1 THEN Raise("ValueError", 73, v)
    ELSE ForEachStr(v, 78)

\* the isinstance(docs, Iterable) test left out
_validate_docs_no_iterable_check(docs) ==
    IF IsStr(docs) THEN Ok(docs)
    ELSE IF IsArrayOrFrame(docs) /\ _check_1d(docs).outcome # "ok"
        THEN _check_1d(docs)
    ELSE IF IsCollection(docs) THEN ForEachStr(docs, 99)
    ELSE Ok(docs)

\* the contents checked for every Iterable, not only for a Collection
_validate_docs_any_iterable(docs) ==
    IF IsStr(docs) THEN Ok(docs)
    ELSE IF ~IsIterable(docs) THEN Raise("TypeError", 89, docs)
    ELSE IF IsArrayOrFrame(docs) /\ _check_1d(docs).outcome # "ok"
        THEN _check_1d(docs)
    ELSE ForEachStr(docs, 99)

_validate_docs(docs) ==
    IF IsStr(docs) THEN Ok(docs)
    ELSE IF ~IsIterable(docs) THEN Raise("TypeError", 89, docs)
    ELSE IF IsArrayOrFrame(docs) /\ _check_1d(docs).outcome # "ok"
        THEN _check_1d(docs)
    ELSE IF IsCollection(docs) THEN ForEachStr(docs, 99)
    ELSE Ok(docs)

\* check_str ignored: the elements are always checked
_validate_tokens_always_checks(tokens, flag) ==
    IF ~IsSequence(tokens) THEN Raise("TypeError", 103, tokens)
    ELSE ForEachStr(tokens, 107)

_validate_tokens(tokens, flag) ==
    IF ~IsSequence(tokens) THEN Raise("TypeError", 103, tokens)
    ELSE IF flag THEN ForEachStr(tokens, 107)
    ELSE Ok(tokens)

(* ------------------------------- calls --------------------------------- *)

NoSplit == <<<<1>>, <<1>>, <<1>>, <<1>>>>
NoTransformer == [trans |-> FALSE, pipe |-> FALSE]

Init ==
    /\ pc = "idle"
    /\ op = "none"
    /\ X0 = NoObject
    /\ X = NoObject
    /\ check_str = FALSE
    /\ split = NoSplit
    /\ obj = NoTransformer
    /\ sort = None
    /\ outcome = "none"
    /\ raisedAt = 0
    /\ inspected = <<>>

\* a call whose argument is one object: r is what the validator returns
Finish(name, v, r) ==
    /\ pc' = "done"
    /\ op' = name
    /\ X0' = v
    /\ X' = r.arg
    /\ outcome' = r.outcome
    /\ raisedAt' = r.line
    /\ inspected' = r.inspected

Call_validate_sort ==
    /\ pc = "idle"
    /\ \E s \in SortArgs :
           /\ pc' = "done"
           /\ op' = "_validate_sort"
           /\ sort' = s
           /\ outcome' = _validate_sort(s)
           /\ raisedAt' = IF _validate_sort(s) = "ok" THEN 0 ELSE 22
           /\ UNCHANGED <<X0, X, check_str, split, obj, inspected>>

Call_validate_train_test_split ==
    /\ pc = "idle"
    /\ \E a \in SplitShapes, b \in SplitShapes,
          c \in SplitShapes, d \in SplitShapes :
           /\ pc' = "done"
           /\ op' = "_validate_train_test_split"
           /\ split' = <<a, b, c, d>>
           /\ outcome' = _validate_train_test_split(a, b, c, d).outcome
           /\ raisedAt' = _validate_train_test_split(a, b, c, d).line
           /\ UNCHANGED <<X0, X, check_str, obj, sort, inspected>>

Call_check_1dlike ==
    /\ pc = "idle"
    /\ \E v \in Objects :
           /\ Finish("_check_1dlike", v, _check_1dlike(v))
           /\ UNCHANGED <<check_str, split, obj, sort>>

Call_check_1d ==
    /\ pc = "idle"
    /\ \E v \in Objects :
           /\ Finish("_check_1d", v, _check_1d(v))
           /\ UNCHANGED <<check_str, split, obj, sort>>

Call_validate_transformer ==
    /\ pc = "idle"
    /\ \E t \in BOOLEAN, p \in BOOLEAN :
           /\ pc' = "done"
           /\ op' = "_validate_transformer"
           /\ obj' = [trans |-> t, pipe |-> p]
           /\ outcome' = _validate_transformer([trans |-> t, pipe |-> p])
           /\ raisedAt' =
                IF _validate_transformer([trans |-> t, pipe |-> p]) = "ok"
                THEN 0 ELSE 61
           /\ UNCHANGED <<X0, X, check_str, split, sort, inspected>>

Call_validate_raw_docs ==
    /\ pc = "idle"
    /\ \E v \in Objects :
           /\ Finish("_validate_raw_docs", v, _validate_raw_docs(v))
           /\ UNCHANGED <<check_str, split, obj, sort>>

Call_validate_docs ==
    /\ pc = "idle"
    /\ \E v \in Objects :
           /\ Finish("_validate_docs", v, _validate_docs(v))
           /\ UNCHANGED <<check_str, split, obj, sort>>

Call_validate_tokens ==
    /\ pc = "idle"
    /\ \E v \in Objects, flag \in BOOLEAN :
           /\ Finish("_validate_tokens", v, _validate_tokens(v, flag))
           /\ check_str' = flag
           /\ UNCHANGED <<split, obj, sort>>

\* the caller takes the result and the next call starts from scratch
Return ==
    /\ pc = "done"
    /\ pc' = "idle"
    /\ op' = "none"
    /\ X0' = NoObject
    /\ X' = NoObject
    /\ check_str' = FALSE
    /\ split' = NoSplit
    /\ obj' = NoTransformer
    /\ sort' = None
    /\ outcome' = "none"
    /\ raisedAt' = 0
    /\ inspected' = <<>>

Next ==
    \/ Call_validate_sort
    \/ Call_validate_train_test_split
    \/ Call_check_1dlike
    \/ Call_check_1d
    \/ Call_validate_transformer
    \/ Call_validate_raw_docs
    \/ Call_validate_docs
    \/ Call_validate_tokens
    \/ Return

Spec == Init /\ [][Next]_vars

(* ------------------------------ properties ----------------------------- *)

Called(name) == pc = "done" /\ op = name

AllStr(e) == \A i \in 1..Len(e) : e[i] = "str"

\* what a one-shot iterator, or a collection, yields from now on
Remaining(v) ==
    IF IsOneShot(v) THEN SubSeq(v.elems, v.pos + 1, Len(v.elems)) ELSE v.elems

\* C1: validate_documents succeeds exactly when the value is a string, or is
\* an iterable that is at most 1-d if it is an ndarray/NDFrame and holds only
\* strings if it is a collection; a value that is neither string nor
\* iterable, and a collection with a non-string element that got as far as
\* the content check, fail with TypeError; a string succeeds with none of
\* its contents read.
C1_ValidateDocs ==
    Called("_validate_docs") =>
        LET oneDim == IsArrayOrFrame(X0) => (X0.hasNdim /\ X0.ndim <= 1)
        IN /\ (outcome = "ok") <=>
                \/ IsStr(X0)
                \/ /\ IsIterable(X0)
                   /\ oneDim
                   /\ IsCollection(X0) => AllStr(X0.elems)
           /\ (~IsStr(X0) /\ ~IsIterable(X0)) => outcome = "TypeError"
           /\ (~IsStr(X0) /\ IsIterable(X0) /\ oneDim /\ IsCollection(X0)
                  /\ ~AllStr(X0.elems)) => outcome = "TypeError"
           /\ IsStr(X0) => (outcome = "ok" /\ inspected = <<>>)

\* validate_documents(["a", 2]) has failed on its second element
C1_Witness ==
    /\ Called("_validate_docs")
    /\ X0.kind = "list"
    /\ X0.elems = <<"str", "int">>
    /\ outcome = "TypeError"
    /\ inspected = <<1, 2>>

\* C2: validate_documents never advances a one-shot, non-collection
\* iterable: whatever it has yet to yield, the call succeeds, reads no
\* element and leaves the same elements to be yielded.
C2_OneShotUntouched ==
    (Called("_validate_docs") /\ IsOneShot(X0) /\ ~IsCollection(X0)) =>
        /\ outcome = "ok"
        /\ inspected = <<>>
        /\ X.pos = X0.pos
        /\ Remaining(X) = Remaining(X0)

\* a generator that still has a non-string to yield went through the call
C2_Witness ==
    /\ Called("_validate_docs")
    /\ IsOneShot(X0)
    /\ X0.pos = 1
    /\ Remaining(X0) = <<"int", "str">>
    /\ outcome = "ok"

\* C3: after any validator call, successful or not, the argument is as it
\* was before the call: same contents, same iterator position.
C3_ArgumentsUntouched ==
    pc = "done" => (X = X0 /\ Remaining(X) = Remaining(X0))

\* C4: validate_raw_documents succeeds exactly when the value is iterable,
\* is not a string, has ndim <= 1 if it has an ndim, and yields only strings.
\* The checks fail in that order: TypeError for a non-iterable or a bare
\* string, ValueError for an iterable of more than one dimension whatever
\* its elements are, TypeError for a non-string element otherwise.
C4_ValidateRawDocs ==
    Called("_validate_raw_docs") =>
        LET iter == IsIterable(X0) /\ ~IsStr(X0)
            multi == X0.hasNdim /\ X0.ndim > 1
        IN /\ (outcome = "ok") <=>
                (iter /\ ~multi /\ AllStr(Remaining(X0)))
           /\ ~IsIterable(X0) => outcome = "TypeError"
           /\ IsStr(X0) => outcome = "TypeError"
           /\ (iter /\ multi) => (outcome = "ValueError" /\ inspected = <<>>)
           /\ (iter /\ ~multi /\ ~AllStr(Remaining(X0))) => outcome = "TypeError"

\* a 2-d array, whose rows are not strings, was rejected for its shape
C4_Witness ==
    /\ Called("_validate_raw_docs")
    /\ X0.kind = "ndarray"
    /\ X0.ndim = 2
    /\ Len(X0.elems) > 0
    /\ ~AllStr(X0.elems)
    /\ outcome = "ValueError"

\* C5: check_1d_or_column succeeds exactly when the value has shape and ndim
\* and ndim is 1, or is 2 with a second axis of size <= 1; a value without
\* shape or ndim fails with TypeError, any other rejected value with
\* ValueError.
C5_Check1dLike ==
    Called("_check_1dlike") =>
        /\ (outcome = "ok") <=>
              /\ X0.hasShape /\ X0.hasNdim
              /\ \/ X0.ndim = 1
                 \/ X0.ndim = 2 /\ X0.shape[2] <= 1
        /\ (X0.hasShape /\ X0.hasNdim /\ X0.ndim > 2) => outcome # "ok"
        /\ ~(X0.hasShape /\ X0.hasNdim) => outcome = "TypeError"
        /\ (X0.hasShape /\ X0.hasNdim /\ outcome # "ok") => outcome = "ValueError"

\* the train array's second axis, if any, has the size of the test array's
SecondAxisAgrees(train, test) ==
    Len(train) > 1 => (Len(test) > 1 /\ train[2] = test[2])

\* C6: validate_train_test_split succeeds exactly when the sample counts of
\* each features/labels pair agree and the second axis of each train array,
\* if it has one, has the size of its test counterpart's; every failure is
\* an AssertionError raised at the first mismatched pair.
C6_TrainTestSplit ==
    Called("_validate_train_test_split") =>
        LET X_train == split[1]
            X_test == split[2]
            y_train == split[3]
            y_test == split[4]
            first == IF X_train[1] # y_train[1] THEN 27
                     ELSE IF X_test[1] # y_test[1] THEN 28
                     ELSE IF ~SecondAxisAgrees(X_train, X_test) THEN 30
                     ELSE IF ~SecondAxisAgrees(y_train, y_test) THEN 32
                     ELSE 0
        IN /\ (outcome = "ok") <=> (first = 0)
           /\ outcome \in {"ok", "AssertionError"}
           /\ raisedAt = first

\* C7: validate_tokens succeeds exactly when the value is a Sequence and,
\* with check_str set, all its elements are strings; without check_str no
\* element is read; a set fails with TypeError whatever the flag, and so
\* does a sequence with a non-string element when the flag is set.
C7_ValidateTokens ==
    Called("_validate_tokens") =>
        /\ (outcome = "ok") <=>
              (IsSequence(X0) /\ (check_str => AllStr(X0.elems)))
        /\ ~check_str => inspected = <<>>
        /\ X0.kind = "set" => outcome = "TypeError"
        /\ (IsSequence(X0) /\ check_str /\ ~AllStr(X0.elems)) =>
              outcome = "TypeError"
        /\ outcome \in {"ok", "TypeError"}

\* validate_tokens([1, 2], check_str=True) has failed
C7_Witness ==
    /\ Called("_validate_tokens")
    /\ check_str
    /\ X0.kind = "list"
    /\ X0.elems = <<"int", "int">>
    /\ outcome = "TypeError"

SameLetter ==
    {<<c, c>> : c \in Chars} \cup
        {<<"A", "a">>, <<"C", "c">>, <<"D", "d">>, <<"E", "e">>, <<"S", "s">>}

\* s spells the lower-case word w in any mix of cases
Spells(s, w) ==
    /\ Len(s) = Len(w)
    /\ \A i \in 1..Len(s) : <<s[i], w[i]>> \in SameLetter

\* C9: validate_sort succeeds exactly when sort is None or spells "asc" or
\* "desc" in any mix of cases; every failure is the ValueError of line 22,
\* whose message names 'asc', 'desc' and None.
C9_ValidateSort ==
    Called("_validate_sort") =>
        /\ (outcome = "ok") <=>
              \/ sort.isNone
              \/ Spells(sort.chars, <<"a", "s", "c">>)
              \/ Spells(sort.chars, <<"d", "e", "s", "c">>)
        /\ outcome \in {"ok", "ValueError"}
        /\ outcome = "ValueError" => raisedAt = 22

\* validate_sort("DeSc") has succeeded
C9_Witness ==
    /\ Called("_validate_sort")
    /\ sort = Str(<<"D", "e", "S", "c">>)
    /\ outcome = "ok"

\* the call got as far as its loop over the elements
ContentCheckRan ==
    \/ /\ Called("_validate_raw_docs")
       /\ IsIterable(X0) /\ ~IsStr(X0)
       /\ ~(X0.hasNdim /\ X0.ndim > 1)
    \/ /\ Called("_validate_docs")
       /\ ~IsStr(X0) /\ IsIterable(X0) /\ IsCollection(X0)
       /\ IsArrayOrFrame(X0) => X0.ndim <= 1
    \/ /\ Called("_validate_tokens")
       /\ IsSequence(X0) /\ check_str

\* C10: a content check reads the elements in iteration order, one after
\* the other from where iteration starts; nothing is read after the first
\* non-string; the call fails exactly when a non-string was read, and a
\* call that succeeds has read every element there was.
C10_FirstInvalidStops ==
    ContentCheckRan =>
        LET start == IF IsOneShot(X0) THEN X0.pos ELSE 0
            n == Len(inspected)
        IN /\ \A i \in 1..n : inspected[i] = start + i
           /\ n <= Len(X0.elems) - start
           /\ \A i \in 1..(n - 1) : X0.elems[inspected[i]] = "str"
           /\ (outcome # "ok") <=>
                 \E i \in 1..n : X0.elems[inspected[i]] # "str"
           /\ outcome # "ok" => outcome = "TypeError"
           /\ outcome = "ok" => n = Len(X0.elems) - start

\* a list with a non-string in the middle: the check stopped there
C10_Witness ==
    /\ ContentCheckRan
    /\ X0.elems = <<"str", "int", "str">>
    /\ inspected = <<1, 2>>
    /\ outcome = "TypeError"

====
